---- MODULE Spec2Model ----
(***************************************************************************)
(* A model of QrackDevice (src/pennylane_qrack/qrack_device.cpp): the      *)
(* handle-to-index map, the allocation cursor, the observable cache and    *)
(* the calls the device issues on the simulator it owns (qsim).             *)
(*                                                                         *)
(* The simulated state is an exact amplitude vector over Gaussian          *)
(* integers, kept up to a positive real factor (divided by the gcd of its  *)
(* components), so that two equal vectors are the same normalized state,   *)
(* global phase included.  Angles are counted in quarter turns.            *)
(***************************************************************************)
EXTENDS Integers, Sequences, FiniteSets, TLC

\* ------------------------------------------------------------------ bounds
\* Largest number of wires a device is constructed with.
MaxWires == 2
\* Handles (wire labels) a caller may name are 0..MaxHandle.
MaxHandle == 1
\* Largest shots argument of a sampling call.
MaxShots == 2
\* The observable cache is grown up to this many entries.
MaxObs == 2
\* Largest number of wires of a device whose observable cache or shot tables
\* are explored.
MaxObsWires == 1

Pow2(k) == 2 ^ k

Handles == 0..MaxHandle
Shots == 1..MaxShots
\* the largest key of an outcome-to-count map: every measured wire reads 1
MaxKey == Pow2(MaxWires) - 1

VARIABLES
    qsim,              \* the simulator: [n |-> qubit count, amp |-> amplitudes]
    qubit_map,         \* std::map<QubitIdType, bitLenInt>
    allocated_qubits,  \* the allocation cursor
    obs_cache,         \* std::vector<QrackObservable>
    device_shots,      \* size_t shots, the device's field
    last               \* the last call: what was asked, how it ended, what it returned,
                       \* and what the session's calls so far add up to

vars == <<qsim, qubit_map, allocated_qubits, obs_cache, device_shots, last>>

\* ------------------------------------------------------------- arithmetic
\* bit q of the basis index i
Bit(i, q) == (i \div Pow2(q)) % 2

\* i with bit q flipped
Flip(i, q) == IF Bit(i, q) = 0 THEN i + Pow2(q) ELSE i - Pow2(q)

Abs(x) == IF x < 0 THEN -x ELSE x

RECURSIVE Gcd(_, _)
Gcd(a, b) == IF b = 0 THEN a ELSE Gcd(b, a % b)

RECURSIVE SumTo(_, _)
\* f[0] + ... + f[k-1]
SumTo(f, k) == IF k = 0 THEN 0 ELSE f[k - 1] + SumTo(f, k - 1)

RECURSIVE GcdTo(_, _)
\* gcd of |re| and |im| of f[0..k-1]
GcdTo(f, k) ==
    IF k = 0 THEN 0
    ELSE Gcd(Gcd(Abs(f[k - 1][1]), Abs(f[k - 1][2])), GcdTo(f, k - 1))

Range(s) == {s[i] : i \in DOMAIN s}

Reverse(s) == [i \in 1..Len(s) |-> s[Len(s) + 1 - i]]

\* ------------------------------------------------------ complex amplitudes
CZero == <<0, 0>>
CAdd(a, b) == <<a[1] + b[1], a[2] + b[2]>>
CNeg(a) == <<-a[1], -a[2]>>
CSub(a, b) == CAdd(a, CNeg(b))
CMul(a, b) == <<a[1] * b[1] - a[2] * b[2], a[1] * b[2] + a[2] * b[1]>>
\* |a|^2
CNorm(a) == a[1] * a[1] + a[2] * a[2]
\* exp(i * k * pi/2), k in quarter turns
IPow(k) ==
    CASE k % 4 = 0 -> <<1, 0>>
      [] k % 4 = 1 -> <<0, 1>>
      [] k % 4 = 2 -> <<-1, 0>>
      [] OTHER -> <<0, -1>>

\* ----------------------------------------------------------- the simulator
Dim(s) == Pow2(s.n)

\* the state with amplitudes f, scaled to its canonical representative
Normalized(n, f) ==
    LET g == GcdTo(f, Pow2(n))
    IN  [n |-> n,
         amp |-> [i \in 0..(Pow2(n) - 1) |->
                    IF g = 0 THEN f[i] ELSE <<f[i][1] \div g, f[i][2] \div g>>]]

\* QSIM_CONFIG(numQubits): numQubits qubits in |0...0>
QSIM_CONFIG(numQubits) ==
    [n |-> numQubits,
     amp |-> [i \in 0..(Pow2(numQubits) - 1) |-> IF i = 0 THEN <<1, 0>> ELSE CZero]]

\* the simulator accepts a qubit index only below its qubit count
InRange(s, q) == q \in 0..(s.n - 1)

\* qsim->Mtrx(m, q): the 2x2 matrix m = <<m00, m01, m10, m11>> on qubit q,
\* in the branch where every control cs[k] reads the bit perm has at position k
\* (qsim->UCMtrx(cs, m, q, perm)); no controls: everywhere.
UCMtrx(s, cs, m, q, perm) ==
    LET on(i) == \A k \in 1..Len(cs) : Bit(i, cs[k]) = Bit(perm, k - 1)
        f == [i \in 0..(Dim(s) - 1) |->
                IF ~on(i) THEN s.amp[i]
                ELSE IF Bit(i, q) = 0
                     THEN CAdd(CMul(m[1], s.amp[i]), CMul(m[2], s.amp[Flip(i, q)]))
                     ELSE CAdd(CMul(m[3], s.amp[Flip(i, q)]), CMul(m[4], s.amp[i]))]
    IN  Normalized(s.n, f)

AllOnes(cs) == SumTo([k \in 0..(Len(cs) - 1) |-> Pow2(k)], Len(cs))

Mtrx(s, m, q) == UCMtrx(s, <<>>, m, q, 0)

\* qsim->CSwap(cs, q1, q2): exchange q1 and q2 where every control reads 1
CSwap(s, cs, q1, q2) ==
    LET on(i) == \A k \in 1..Len(cs) : Bit(i, cs[k]) = 1
        sw(i) == IF Bit(i, q1) = Bit(i, q2) THEN i ELSE Flip(Flip(i, q1), q2)
    IN  [s EXCEPT !.amp = [i \in 0..(Dim(s) - 1) |->
                             IF on(i) THEN s.amp[sw(i)] ELSE s.amp[i]]]

Swap(s, q1, q2) == CSwap(s, <<>>, q1, q2)

\* the gate matrices the device names
MtrxX == <<<<0, 0>>, <<1, 0>>, <<1, 0>>, <<0, 0>>>>
MtrxZ == <<<<1, 0>>, <<0, 0>>, <<0, 0>>, <<-1, 0>>>>
\* sqrt(2) * H: the factor is positive and real, and Normalized removes it
MtrxH == <<<<1, 0>>, <<1, 0>>, <<1, 0>>, <<-1, 0>>>>
\* diag(topLeft, bottomRight)
MtrxPhase(topLeft, bottomRight) == <<topLeft, CZero, CZero, bottomRight>>

\* 1 / a for a of modulus 1
CInv(a) == <<a[1], -a[2]>>

\* the angles of Rot with params negated for the inverse, but not reversed
RotAnglesUnreversed(params, inverse) ==
    [phi |-> IF inverse THEN -params[1] ELSE params[1],
     theta |-> IF inverse THEN -params[2] ELSE params[2],
     omega |-> IF inverse THEN -params[3] ELSE params[3]]

\* the angles Rot works with, all in quarter turns: params as they are, or
\* negated and in reverse order for the inverse
RotAngles(params, inverse) ==
    [phi |-> IF inverse THEN -params[3] ELSE params[1],
     theta |-> IF inverse THEN -params[2] ELSE params[2],
     omega |-> IF inverse THEN -params[1] ELSE params[3]]

\* the matrix of Rot: theta is a multiple of a half turn and phi + omega of a
\* half turn, so that every entry is 0 or a power of i
RotMtrx(phi, theta, omega) ==
    LET cos0 == <<IPow(theta \div 2)[1], 0>>
        sin0 == <<IPow(theta \div 2)[2], 0>>
        expP == IPow((phi + omega) \div 2)
        expM == IPow((phi - omega) \div 2)
    IN  <<CMul(cos0, CInv(expP)), CMul(CNeg(sin0), expM),
          CMul(sin0, CInv(expM)), CMul(cos0, expP)>>

\* probability weight (unnormalized) of the basis states in which qubit q reads b
Weight(s, q, b) ==
    SumTo([i \in 0..(Dim(s) - 1) |->
             IF Bit(i, q) = b THEN CNorm(s.amp[i]) ELSE 0], Dim(s))

TotalWeight(s) == SumTo([i \in 0..(Dim(s) - 1) |-> CNorm(s.amp[i])], Dim(s))

\* the state after qubit q was measured and read b
Collapsed(s, q, b) ==
    Normalized(s.n, [i \in 0..(Dim(s) - 1) |->
                       IF Bit(i, q) = b THEN s.amp[i] ELSE CZero])

\* the results qsim->M(q) can return
MResults(s, q) == {b \in {0, 1} : Weight(s, q, b) > 0}

\* qsim->Dispose(q, 1) of a qubit that reads b: the qubits above q move down by one
Dispose(s, q, b) ==
    LET widen(j) == (j % Pow2(q)) + b * Pow2(q) + (j \div Pow2(q)) * Pow2(q + 1)
    IN  Normalized(s.n - 1, [j \in 0..(Pow2(s.n - 1) - 1) |-> s.amp[widen(j)]])

\* qsim->ProbBitsAll(bits, probs): probs[o] is the weight of the basis states
\* whose qubit bits[p] reads bit p - 1 of o, for every p (weights are
\* probabilities times TotalWeight)
ProbBitsAll(s, bits) ==
    [o \in 0..(Pow2(Len(bits)) - 1) |->
        SumTo([i \in 0..(Dim(s) - 1) |->
                 IF \A p \in DOMAIN bits : Bit(i, bits[p]) = Bit(o, p - 1)
                 THEN CNorm(s.amp[i]) ELSE 0], Dim(s))]

\* ---------------------------------------------- primitive calls on qsim
\* One call the device issues on qsim: prim is the method's name, kind the way
\* it acts: "mtrx" (the 2x2 matrix m on q[1] where the controls cs read perm),
\* "mask" (m on every qubit of the bit mask perm), "swap" (exchange q[1] and
\* q[2] where every control reads 1), "iswap" (exchange, then the phase m[1]
\* where the two qubits differ).
Prim(prim, kind, cs, q, m, perm) ==
    [prim |-> prim, kind |-> kind, cs |-> cs, q |-> q, m |-> m, perm |-> perm]

\* the calls of qsim the dispatch uses
qX(q) == Prim("X", "mtrx", <<>>, <<q>>, MtrxX, 0)
qZ(q) == Prim("Z", "mtrx", <<>>, <<q>>, MtrxZ, 0)
qH(q) == Prim("H", "mtrx", <<>>, <<q>>, MtrxH, 0)
qXMask(mask) == Prim("XMask", "mask", <<>>, <<>>, MtrxX, mask)
qZMask(mask) == Prim("ZMask", "mask", <<>>, <<>>, MtrxZ, mask)
qSwap(q1, q2) == Prim("Swap", "swap", <<>>, <<q1, q2>>, <<>>, 0)
qCSwap(cs, q1, q2) == Prim("CSwap", "swap", cs, <<q1, q2>>, <<>>, 0)
\* ISwap: exchange, with the factor i where the two qubits differ; IISwap: -i
qISwap(q1, q2) == Prim("ISwap", "iswap", <<>>, <<q1, q2>>, <<IPow(1)>>, 0)
qIISwap(q1, q2) == Prim("IISwap", "iswap", <<>>, <<q1, q2>>, <<IPow(3)>>, 0)
qUCMtrx(cs, m, q, perm) == Prim("UCMtrx", "mtrx", cs, <<q>>, m, perm)
qMtrx(m, q) == Prim("Mtrx", "mtrx", <<>>, <<q>>, m, 0)
\* MCPhase(cs, topLeft, bottomRight, q): every control must read 1
qMCPhase(cs, topLeft, bottomRight, q) ==
    Prim("MCPhase", "mtrx", cs, <<q>>, MtrxPhase(topLeft, bottomRight), AllOnes(cs))
\* CU(cs, q, 0, 0, lambda) is diag(1, exp(i lambda)) on q where every control reads 1
qCU00(cs, q, lambda) ==
    Prim("CU", "mtrx", cs, <<q>>, MtrxPhase(IPow(0), IPow(lambda)), AllOnes(cs))

\* A factor handed to qsim->UCPhase or applied by qsim->T: the complex number
\* z * 2^(-e/4), or not a number at all.
Factor(z, e, nan) == [z |-> z, e |-> e, nan |-> nan]
ONE_CMPLX == Factor(IPow(0), 0, FALSE)
\* (0, 1/sqrt(2)) and (0, -1/sqrt(2))
SQRTI_2_CMPLX == Factor(IPow(1), 2, FALSE)
NEG_SQRTI_2_CMPLX == Factor(IPow(3), 2, FALSE)
\* (0, sqrt(1/sqrt(2))), and (0, sqrt(-1/sqrt(2))): the square root of a negative real
QBRTI_2_CMPLX == Factor(IPow(1), 1, FALSE)
NEG_QBRTI_2_CMPLX == Factor(CZero, 0, TRUE)
\* exp(i pi/4) = (1 + i) / sqrt(2), and its conjugate
EighthTurn == Factor(<<1, 1>>, 2, FALSE)
NegEighthTurn == Factor(<<1, -1>>, 2, FALSE)

\* the factor the controlled S and T hand to UCPhase as bottomRight
PhaseOf(name, inverse) ==
    IF name = "S" THEN (IF inverse THEN NEG_SQRTI_2_CMPLX ELSE SQRTI_2_CMPLX)
    ELSE (IF inverse THEN NEG_QBRTI_2_CMPLX ELSE QBRTI_2_CMPLX)

\* S, IS, T, IT and UCPhase(cs, topLeft, bottomRight, q, perm)
qS(q) == Prim("S", "mtrx", <<>>, <<q>>, MtrxPhase(IPow(0), IPow(1)), 0)
qIS(q) == Prim("IS", "mtrx", <<>>, <<q>>, MtrxPhase(IPow(0), IPow(3)), 0)
qT(q) == Prim("T", "phase", <<>>, <<q>>, <<ONE_CMPLX, EighthTurn>>, 0)
qIT(q) == Prim("IT", "phase", <<>>, <<q>>, <<ONE_CMPLX, NegEighthTurn>>, 0)
qUCPhase(cs, topLeft, bottomRight, q, perm) ==
    Prim("UCPhase", "phase", cs, <<q>>, <<topLeft, bottomRight>>, perm)

\* the factor a "phase" call p puts on the amplitude of basis index i
FactorAt(p, i) ==
    IF \E k \in 1..Len(p.cs) : Bit(i, p.cs[k]) # Bit(p.perm, k - 1) THEN ONE_CMPLX
    ELSE IF Bit(i, p.q[1]) = 0 THEN p.m[1] ELSE p.m[2]

\* qsim->UCPhase: every amplitude times its factor. The amplitudes of the model
\* stand for a state up to a positive real factor, so the call is followed
\* only where the factors at work have one modulus (ExactPhase).
UCPhase(s, p) ==
    Normalized(s.n, [i \in 0..(Dim(s) - 1) |-> CMul(FactorAt(p, i).z, s.amp[i])])

\* the factors of p are numbers, and of one modulus on the basis states s holds
ExactPhase(s, p) ==
    /\ ~p.m[1].nan /\ ~p.m[2].nan
    /\ \A i, j \in {k \in 0..(Dim(s) - 1) : s.amp[k] # CZero} :
           LET f == FactorAt(p, i)
               g == FactorAt(p, j)
           IN  CNorm(f.z) * CNorm(f.z) * Pow2(g.e) = CNorm(g.z) * CNorm(g.z) * Pow2(f.e)

RECURSIVE MaskApply(_, _, _, _)
\* m on every qubit k..n-1 whose bit is set in mask
MaskApply(s, m, mask, k) ==
    IF k >= s.n THEN s
    ELSE MaskApply(IF Bit(mask, k) = 1 THEN Mtrx(s, m, k) ELSE s, m, mask, k + 1)

ISwapOn(s, q1, q2, ph) ==
    LET t == Swap(s, q1, q2)
    IN  [t EXCEPT !.amp = [i \in 0..(Dim(s) - 1) |->
                             IF Bit(i, q1) = Bit(i, q2) THEN t.amp[i]
                             ELSE CMul(ph, t.amp[i])]]

\* the simulator refuses a call that names a qubit it does not hold
PrimInRange(s, p) ==
    /\ \A k \in DOMAIN p.cs : InRange(s, p.cs[k])
    /\ \A k \in DOMAIN p.q : InRange(s, p.q[k])
    /\ p.kind = "mask" => p.perm < Dim(s)

\* the model can follow every call of prog on s
Exact(s, prog) ==
    \A k \in DOMAIN prog :
        (prog[k].kind = "phase" /\ PrimInRange(s, prog[k])) => ExactPhase(s, prog[k])

ApplyPrim(s, p) ==
    CASE p.kind = "mtrx" -> UCMtrx(s, p.cs, p.m, p.q[1], p.perm)
      [] p.kind = "mask" -> MaskApply(s, p.m, p.perm, 0)
      [] p.kind = "swap" -> CSwap(s, p.cs, p.q[1], p.q[2])
      [] p.kind = "phase" -> UCPhase(s, p)
      [] OTHER -> ISwapOn(s, p.q[1], p.q[2], p.m[1])

RECURSIVE RunFrom(_, _, _)
\* the calls prog[k..] issued in order on s; a refused call throws and ends the run.
\* prims counts the calls issued, the refused one included.
RunFrom(s, prog, k) ==
    IF k > Len(prog) THEN [s |-> s, err |-> "ok", prims |-> k - 1]
    ELSE IF ~PrimInRange(s, prog[k]) THEN [s |-> s, err |-> "engine_error", prims |-> k]
    ELSE RunFrom(ApplyPrim(s, prog[k]), prog, k + 1)

Run(s, prog) == RunFrom(s, prog, 1)

\* ------------------------------------------------------------ the last call
\* held: the handles AllocateQubit has returned that no release has named since;
\* cleared: ReleaseAllQubits has run; noise: the kwargs' 'noise' value, a key the
\* constructor's switch sends to its default case
NoCall == [op |-> "none", err |-> "ok", prims |-> 0, args |-> <<>>, ret |-> <<>>,
           held |-> {}, cleared |-> FALSE, noise |-> 0]

Call(op, err, prims, args, ret) ==
    [op |-> op, err |-> err, prims |-> prims, args |-> args, ret |-> ret,
     held |-> last.held, cleared |-> last.cleared, noise |-> last.noise]

\* the device is gone once a call has crashed the process
Alive == last.err # "crash"

\* every handle of wires is a key of qubit_map (what last.args tells of a call)
Live(wires) == Range(wires) \subseteq DOMAIN qubit_map

\* ------------------------------------------------------------ construction
\* the 'wires' value of the constructor's kwargs: an integer, or a Wires label list
IntConfigs == 0..MaxWires

RECURSIVE SeqsUpTo(_, _)
SeqsUpTo(S, k) ==
    IF k = 0 THEN {<<>>}
    ELSE LET shorter == SeqsUpTo(S, k - 1)
         IN  shorter \cup {Append(s, x) : s \in {t \in shorter : Len(t) = k - 1}, x \in S}

Injective(s) == \A i, j \in DOMAIN s : s[i] = s[j] => i = j

\* Wires label lists: one to MaxWires distinct labels
WireLists == {s \in SeqsUpTo(Handles, MaxWires) : Len(s) >= 1 /\ Injective(s)}

\* 'wires' is an integer: qubit_map[i] = i for i < mapped_qubits
MapOfInt(cnt) == [h \in 0..(cnt - 1) |-> h]

\* 'wires' is a Wires object: qubit_map[label] = mapped_qubits++, label by label
MapOfList(ls) ==
    [h \in Range(ls) |-> (CHOOSE i \in DOMAIN ls :
                            ls[i] = h /\ \A j \in DOMAIN ls : ls[j] = h => j <= i) - 1]

Init ==
    /\ \/ \E cnt \in IntConfigs :
            /\ qubit_map = MapOfInt(cnt)
            /\ qsim = QSIM_CONFIG(cnt)
       \/ \E ls \in WireLists :
            /\ qubit_map = MapOfList(ls)
            /\ qsim = QSIM_CONFIG(Len(ls))
    /\ allocated_qubits = 0
    /\ obs_cache = <<>>
    /\ device_shots = 1
    /\ last = NoCall

\* --------------------------------------------------- allocation and release
\* the keys of qubit_map in the order std::map iterates them
RECURSIVE SortedKeys(_)
SortedKeys(S) ==
    IF S = {} THEN <<>>
    ELSE LET m == CHOOSE x \in S : \A y \in S : x <= y
         IN  <<m>> \o SortedKeys(S \ {m})

AllocateQubit ==
    /\ Alive
    /\ IF allocated_qubits >= Cardinality(DOMAIN qubit_map)
       THEN /\ last' = Call("AllocateQubit", "runtime_error", 0, <<>>, <<>>)
            /\ UNCHANGED allocated_qubits
       ELSE LET id == SortedKeys(DOMAIN qubit_map)[allocated_qubits + 1]
            IN  /\ last' = [Call("AllocateQubit", "ok", 0, <<>>, <<id>>)
                                EXCEPT !.held = @ \cup {id}]
                /\ allocated_qubits' = allocated_qubits + 1
    /\ UNCHANGED <<qsim, qubit_map, obs_cache, device_shots>>

\* AllocateQubits(num_qubits): AllocateQubit num_qubits times; the first throw
\* ends the loop and leaves the cursor where the earlier turns put it
AllocateQubits ==
    \E num_qubits \in 0..(MaxWires + 1) :
        LET size == Cardinality(DOMAIN qubit_map)
            room == IF allocated_qubits >= size THEN 0 ELSE size - allocated_qubits
            got == IF num_qubits <= room THEN num_qubits ELSE room
            ids == [k \in 1..got |-> SortedKeys(DOMAIN qubit_map)[allocated_qubits + k]]
        IN  /\ Alive
            /\ allocated_qubits' = allocated_qubits + got
            /\ last' = [Call("AllocateQubits",
                             IF got = num_qubits THEN "ok" ELSE "runtime_error",
                             0, <<>>, IF got = num_qubits THEN ids ELSE <<>>)
                            EXCEPT !.held = @ \cup Range(ids)]
            /\ UNCHANGED <<qsim, qubit_map, obs_cache, device_shots>>

\* qubit_map[label]: operator[] inserts label with index 0 when it is missing
MapSubscript(map, label) ==
    IF label \in DOMAIN map THEN map
    ELSE [h \in DOMAIN map \cup {label} |-> IF h = label THEN 0 ELSE map[h]]

\* qubit_map.erase(label)
MapErase(map, label) == [h \in DOMAIN map \ {label} |-> map[h]]

\* ReleaseQubit(label). last.args: whether label was in qubit_map at the call
ReleaseQubit ==
    \E label \in Handles :
        LET map == MapSubscript(qubit_map, label)
            id == map[label]
            args == <<label \in DOMAIN qubit_map>>
        IN  /\ Alive
            /\ IF ~InRange(qsim, id)
               THEN \* qsim->M(id) throws; the entry operator[] made stays
                    /\ qubit_map' = map
                    /\ last' = Call("ReleaseQubit", "engine_error", 1, args, <<>>)
                    /\ UNCHANGED <<qsim, allocated_qubits, obs_cache, device_shots>>
               ELSE \E b \in MResults(qsim, id) :
                    /\ qsim' = Dispose(Collapsed(qsim, id, b), id, b)
                    /\ qubit_map' = MapErase(map, label)
                    /\ last' = [Call("ReleaseQubit", "ok", 2, args, <<>>)
                                    EXCEPT !.held = @ \ {label}]
                    /\ UNCHANGED <<allocated_qubits, obs_cache, device_shots>>

ReleaseAllQubits ==
    /\ Alive
    /\ qsim' = QSIM_CONFIG(0)
    /\ qubit_map' = [h \in {} |-> 0]
    /\ last' = [Call("ReleaseAllQubits", "ok", 0, <<>>, <<>>)
                    EXCEPT !.held = {}, !.cleared = TRUE]
    /\ UNCHANGED <<allocated_qubits, obs_cache, device_shots>>

\* SetDeviceShots(s)
SetDeviceShots ==
    \E s \in Shots :
        /\ Alive
        /\ device_shots' = s
        /\ last' = Call("SetDeviceShots", "ok", 0, <<s>>, <<>>)
        /\ UNCHANGED <<qsim, qubit_map, allocated_qubits, obs_cache>>

\* ------------------------------------------------------------- measurement
\* std::optional<int> postselect: -1 stands for no value
Postselects == {-1, 0, 1}

\* Measure hands the handle id itself to qsim->M / qsim->ForceM.
\* last.args: the handle; last.ret: the bit returned.
Measure ==
    \E id \in Handles, postselect \in Postselects :
        LET results == IF postselect = -1 THEN MResults(qsim, id)
                       ELSE MResults(qsim, id) \cap {postselect}
        IN  /\ Alive
            /\ IF ~InRange(qsim, id) \/ results = {}
               THEN \* no such qubit, or a forced result of probability 0: qsim throws
                    /\ last' = Call("Measure", "engine_error", 1, <<id>>, <<>>)
                    /\ UNCHANGED <<qsim, qubit_map, allocated_qubits, obs_cache, device_shots>>
               ELSE \E b \in results :
                    /\ qsim' = Collapsed(qsim, id, b)
                    /\ last' = Call("Measure", "ok", 1, <<id>>, <<b>>)
                    /\ UNCHANGED <<qubit_map, allocated_qubits, obs_cache, device_shots>>

\* ------------------------------------------------------------ gate dispatch
\* getDeviceWires throws std::invalid_argument at the first handle not in qubit_map
Mapped(wires) == \A k \in DOMAIN wires : wires[k] \in DOMAIN qubit_map

getDeviceWires(wires) == [k \in DOMAIN wires |-> qubit_map[wires[k]]]

\* wiresToMask: the OR of pow2(target) over the targets
wiresToMask(wires) ==
    LET S == Range(wires)
    IN  SumTo([k \in 0..MaxHandle + MaxWires |-> IF k \in S THEN Pow2(k) ELSE 0],
              MaxHandle + MaxWires + 1)

\* controlPerm with no bit ever set: the control values are not read
controlPermZero(control_values) == 0

\* controlPerm with the bits in reverse order: bit 0 for the last control value
controlPermReversed(control_values) ==
    SumTo([k \in 0..(Len(control_values) - 1) |->
             IF control_values[Len(control_values) - k] THEN Pow2(k) ELSE 0],
          Len(control_values))

\* controlPerm: bit i is set when control_values[i] is true
controlPerm(control_values) ==
    SumTo([k \in 0..(Len(control_values) - 1) |->
             IF control_values[k + 1] THEN Pow2(k) ELSE 0], Len(control_values))

\* qsim->X on every control whose value is false
FlipFalse(control_wires, control_values) ==
    LET idx == SelectSeq([k \in DOMAIN control_wires |-> k], LAMBDA k : ~control_values[k])
    IN  [j \in DOMAIN idx |-> qX(control_wires[idx[j]])]

\* What a dispatch decides: the error it throws before any call (or "ok"), the
\* calls it issues, and whether it reads a vector past its end (undefined).
Dispatch(err, prog, ub) == [err |-> err, prog |-> prog, ub |-> ub]

\* wires[k - 1]; a read past the end of the vector yields whatever is there: g[k]
At(wires, k, g) == IF k \in DOMAIN wires THEN wires[k] ELSE g[k]

\* the gate names of the model: the vocabulary's X, Z, H and swap families and
\* the controlled names built on them, and one name outside the vocabulary
GateNames ==
    {"PauliX", "PauliZ", "Hadamard", "SWAP", "ISWAP", "PSWAP", "CNOT", "CSWAP",
     "Identity", "QFT"}

\* applyNamedOperation(name, wires, inverse, params): no controls
applyNamedOperation(name, wires, inverse, params, g) ==
    CASE name = "PauliX" ->
            IF Len(wires) > 1 THEN Dispatch("ok", <<qXMask(wiresToMask(wires))>>, FALSE)
            ELSE Dispatch("ok", <<qX(At(wires, 1, g))>>, Len(wires) = 0)
      [] name = "PauliZ" ->
            IF Len(wires) > 1 THEN Dispatch("ok", <<qZMask(wiresToMask(wires))>>, FALSE)
            ELSE Dispatch("ok", <<qZ(At(wires, 1, g))>>, Len(wires) = 0)
      [] name = "Hadamard" ->
            Dispatch("ok", [k \in DOMAIN wires |-> qH(wires[k])], FALSE)
      [] name = "SWAP" ->
            IF Len(wires) # 2 THEN Dispatch("invalid_argument", <<>>, FALSE)
            ELSE Dispatch("ok", <<qSwap(wires[1], wires[2])>>, FALSE)
      [] name = "ISWAP" ->
            IF Len(wires) # 2 THEN Dispatch("invalid_argument", <<>>, FALSE)
            ELSE IF inverse THEN Dispatch("ok", <<qISwap(wires[1], wires[2])>>, FALSE)
            ELSE Dispatch("ok", <<qIISwap(wires[1], wires[2])>>, FALSE)
      [] name = "PSWAP" ->
            IF Len(wires) # 2 THEN Dispatch("invalid_argument", <<>>, FALSE)
            ELSE LET lambda == IF inverse THEN -params[1] ELSE params[1]
                     c == <<wires[1]>>
                 IN  Dispatch("ok", <<qCU00(c, wires[2], lambda),
                                      qSwap(wires[1], wires[2]),
                                      qCU00(c, wires[2], lambda)>>, FALSE)
      [] name = "S" ->
            Dispatch("ok", [k \in DOMAIN wires |->
                              IF inverse THEN qIS(wires[k]) ELSE qS(wires[k])], FALSE)
      [] name = "T" ->
            Dispatch("ok", [k \in DOMAIN wires |->
                              IF inverse THEN qIT(wires[k]) ELSE qT(wires[k])], FALSE)
      [] name = "Rot" ->
            LET a == RotAngles(params, inverse)
                mtrx == RotMtrx(a.phi, a.theta, a.omega)
            IN  Dispatch("ok", [k \in DOMAIN wires |-> qMtrx(mtrx, wires[k])], FALSE)
      [] name = "Identity" -> Dispatch("ok", <<>>, FALSE)
      [] OTHER -> Dispatch("domain_error", <<>>, FALSE)

\* applyNamedOperation(name, control_wires, control_values, wires, inverse, params)
applyControlledOperation(name, control_wires, control_values, wires, inverse, params, g) ==
    LET perm == controlPerm(control_values)
        flips == FlipFalse(control_wires, control_values)
    IN
    CASE name \in {"PauliX", "CNOT", "Toffoli"} ->
            Dispatch("ok", [k \in DOMAIN wires |->
                              qUCMtrx(control_wires, MtrxX, wires[k], perm)], FALSE)
      [] name = "PauliZ" ->
            Dispatch("ok", [k \in DOMAIN wires |->
                              qUCMtrx(control_wires, MtrxZ, wires[k], perm)], FALSE)
      [] name = "Hadamard" ->
            Dispatch("ok", [k \in DOMAIN wires |->
                              qUCMtrx(control_wires, MtrxH, wires[k], perm)], FALSE)
      [] name \in {"SWAP", "CSWAP"} ->
            IF Len(wires) # 2 THEN Dispatch("invalid_argument", <<>>, FALSE)
            ELSE Dispatch("ok", flips \o <<qCSwap(control_wires, wires[1], wires[2])>>
                                \o flips, FALSE)
      [] name = "ISWAP" ->
            IF Len(wires) # 2 THEN Dispatch("invalid_argument", <<>>, FALSE)
            ELSE LET mcp_wires == Append(control_wires, wires[1])
                     ph == IF inverse THEN IPow(3) ELSE IPow(1)
                 IN  Dispatch("ok", flips
                                \o <<qMCPhase(mcp_wires, ph, IPow(0), wires[2]),
                                     qCSwap(control_wires, wires[1], wires[2]),
                                     qMCPhase(mcp_wires, ph, IPow(0), wires[2])>>
                                \o flips, FALSE)
      [] name = "PSWAP" ->
            \* no check of wires.size(): wires[0U] and wires[1U] are read as they are
            LET w0 == At(wires, 1, g)
                w1 == At(wires, 2, g)
                c == Append(control_wires, w0)
                lambda == IF inverse THEN -params[1] ELSE params[1]
            IN  Dispatch("ok", <<qCU00(c, w1, lambda),
                                 qCSwap(control_wires, w0, w1),
                                 qCU00(c, w1, lambda)>>, Len(wires) < 2)
      [] name \in {"S", "T"} ->
            Dispatch("ok", [k \in DOMAIN wires |->
                              qUCPhase(control_wires, ONE_CMPLX, PhaseOf(name, inverse),
                                       wires[k], perm)], FALSE)
      [] name \in {"Rot", "CRot"} ->
            LET a == RotAngles(params, inverse)
                mtrx == RotMtrx(a.phi, a.theta, a.omega)
            IN  Dispatch("ok", [k \in DOMAIN wires |->
                                  qUCMtrx(control_wires, mtrx, wires[k], perm)], FALSE)
      [] name = "Identity" -> Dispatch("ok", <<>>, FALSE)
      [] OTHER -> Dispatch("domain_error", <<>>, FALSE)

\* argument lists of a call: distinct handles, mapped or not; at least one target
MaxControls == 1
TargetLists == {w \in SeqsUpTo(Handles, MaxWires) : Len(w) >= 1 /\ Injective(w)}
ControlLists == {w \in SeqsUpTo(Handles, MaxControls) : Injective(w)}
ValueLists == SeqsUpTo(BOOLEAN, MaxControls)
\* the control arguments a specification draws: any control wires and values, or
\* no control wires and at most one value
Controlled == [wires |-> ControlLists, values |-> ValueLists]
Uncontrolled == [wires |-> {<<>>}, values |-> {<<>>, <<TRUE>>, <<FALSE>>}]
\* the inversion flag and the angle (in quarter turns), for the names that read them
InversesOf(name) ==
    IF name \in {"ISWAP", "PSWAP", "Rot", "CRot", "S", "T"} THEN BOOLEAN ELSE {FALSE}
\* (phi, theta, omega) of Rot: a half turn about phi - omega = -pi, and no turn
\* with phi + omega = pi
RotParams == {<<1, 2, 3>>, <<2, 0, 0>>}
ParamsOf(name) ==
    IF name = "PSWAP" THEN {<<1>>}
    ELSE IF name \in {"Rot", "CRot"} THEN RotParams
    ELSE {<<>>}
\* what two reads past the end of a vector of qubit indices can yield: any two
\* indices, held by the simulator or not, other than the ones the call names
Garbage(used) ==
    {g \in (0..MaxWires) \X (0..MaxWires) : g[1] # g[2] /\ g[1] \notin used /\ g[2] \notin used}

\* the names whose leading target wires are controls
ControlledNames == {"CNOT", "Toffoli", "CRot"}

\* how many trailing wires stay targets: 1, for CSWAP 2, 0 when none become controls
KeptTargets(name) ==
    IF name \in ControlledNames THEN 1 ELSE IF name = "CSWAP" THEN 2 ELSE 0

\* What last.args keeps of a gate call: whether every handle named is in
\* qubit_map, whether the control wires and values are as many and, when the
\* call is traced, the name and the numbers of target and control wires handed in.
GateArgs(traced, name, wires, controlled_wires, controlled_values) ==
    <<Live(wires) /\ Live(controlled_wires), Len(controlled_wires) = Len(controlled_values)>>
    \o (IF traced THEN <<name, Len(wires), Len(controlled_wires)>> ELSE <<>>)

\* What last.ret keeps of a gate call that reached the simulator, when the calls
\* are recorded: the arguments handed in, the calls issued on qsim, and the
\* state qsim was in before them.
Issued(calls, name, inverse, params, wires, controlled_wires, controlled_values, prog) ==
    IF calls
    THEN <<[name |-> name, inverse |-> inverse, params |-> params, wires |-> wires,
            controlled_wires |-> controlled_wires,
            controlled_values |-> controlled_values, prog |-> prog, before |-> qsim]>>
    ELSE <<>>

\* NamedOperation(name, params, wires, inverse, controlled_wires, controlled_values)
\* for the names, the target lists and the control arguments given
NamedOperationWith(names, targets, controls, traced, calls) ==
    \E name \in names, wires \in targets, controlled_wires \in controls.wires,
       controlled_values \in controls.values :
    \E inverse \in InversesOf(name), params \in ParamsOf(name) :
        LET args == GateArgs(traced, name, wires, controlled_wires, controlled_values)
            ret(prog) == Issued(calls, name, inverse, params, wires, controlled_wires,
                                controlled_values, prog)
            fail(err) ==
                /\ last' = Call("NamedOperation", err, 0, args, <<>>)
                /\ UNCHANGED <<qsim, qubit_map, allocated_qubits, obs_cache, device_shots>>
            kept == KeptTargets(name)
        IN
        /\ Alive
        /\ Range(wires) \cap Range(controlled_wires) = {}
        \* a controlled Hadamard needs the factor sqrt(2) on one branch only,
        \* which the amplitudes of the model do not have: Hadamard comes uncontrolled
        /\ name = "Hadamard" => controlled_wires = <<>>
        /\ IF Len(controlled_wires) # Len(controlled_values) THEN fail("runtime_error")
           ELSE IF ~Mapped(wires) \/ ~Mapped(controlled_wires) THEN fail("invalid_argument")
           ELSE IF kept > 0 /\ Len(wires) < kept
           THEN \* end = dev_wires.size() - kept wraps around: the range to insert is
                \* not a range
                \E err \in {"crash", "length_error"} : fail(err)
           ELSE
             LET dev_wires == getDeviceWires(wires)
                 end == IF kept = 0 THEN 0 ELSE Len(wires) - kept
                 dev_controlled_wires ==
                     getDeviceWires(controlled_wires) \o SubSeq(dev_wires, 1, end)
                 dev_targets == SubSeq(dev_wires, end + 1, Len(dev_wires))
                 dev_controlled_values == controlled_values \o [k \in 1..end |-> TRUE]
                 used == Range(dev_wires) \cup Range(dev_controlled_wires)
                 d0 == IF dev_controlled_wires = <<>>
                       THEN applyNamedOperation(name, dev_targets, inverse, params, <<0, 0>>)
                       ELSE applyControlledOperation(name, dev_controlled_wires,
                                dev_controlled_values, dev_targets, inverse, params, <<0, 0>>)
             IN
             IF d0.err # "ok" THEN fail(d0.err)
             ELSE IF d0.ub
             THEN \* a read past the end of wires: the process dies, or goes on with
                  \* what the read found
                  \/ fail("crash")
                  \/ \E g \in Garbage(used) :
                       LET d == IF dev_controlled_wires = <<>>
                                THEN applyNamedOperation(name, dev_targets, inverse, params, g)
                                ELSE applyControlledOperation(name, dev_controlled_wires,
                                         dev_controlled_values, dev_targets, inverse,
                                         params, g)
                       IN  \E r \in {Run(qsim, d.prog)} :
                           /\ qsim' = r.s
                           /\ last' = Call("NamedOperation", r.err, r.prims, args,
                                           ret(d.prog))
                           /\ UNCHANGED <<qubit_map, allocated_qubits, obs_cache, device_shots>>
             ELSE \E r \in {Run(qsim, d0.prog)} :
                      /\ Exact(qsim, d0.prog)
                      /\ qsim' = r.s
                      /\ last' = Call("NamedOperation", r.err, r.prims, args, ret(d0.prog))
                      /\ UNCHANGED <<qubit_map, allocated_qubits, obs_cache, device_shots>>

\* the same over the target lists of the model, the calls not recorded
NamedOperationOf(names, controls, traced) ==
    NamedOperationWith(names, TargetLists, controls, traced, FALSE)

\* -------------------------------------------------------------- observables
\* a QrackObservable: the Pauli bases and the qubit indices, pair by pair
QrackObservable(o, w) == [obs |-> o, wires |-> w]

\* ObsId values a caller passes; any but PauliX, PauliY, PauliZ leaves PauliI
ObsIds == {"PauliZ", "Hermitian"}

BasisOf(id) ==
    CASE id = "PauliX" -> "PauliX"
      [] id = "PauliY" -> "PauliY"
      [] id = "PauliZ" -> "PauliZ"
      [] OTHER -> "PauliI"

\* the observable indices a caller passes: the valid ones, the -1 that
\* HamiltonianObservable returns, and one past every cache the model grows
ObsIndexes == -1..MaxObs

InCache(id) == id \in 0..(Len(obs_cache) - 1)

\* what obs_cache[id] yields for an id that is no index of the vector: the bytes
\* there, read as a QrackObservable
GarbageObs == {QrackObservable(<<>>, <<>>), QrackObservable(<<"PauliZ">>, <<0>>)}

\* Observable(id, matrix, wires) for the ids given. last.args: whether the wires are mapped and
\* whether there is one wire; last.ret: the index returned.
ObservableOf(ids) ==
    \E id \in ids, wires \in TargetLists :
        LET args == <<Live(wires), Len(wires) = 1>>
            fail(err) ==
                /\ last' = Call("Observable", err, 0, args, <<>>)
                /\ UNCHANGED <<qsim, qubit_map, allocated_qubits, obs_cache, device_shots>>
        IN  /\ Alive
            /\ IF Len(wires) # 1 THEN fail("runtime_error")
               ELSE IF ~Mapped(wires) THEN fail("invalid_argument")
               ELSE /\ Len(obs_cache) < MaxObs
                    /\ obs_cache' = Append(obs_cache,
                           QrackObservable(<<BasisOf(id)>>, <<getDeviceWires(wires)[1]>>))
                    /\ last' = Call("Observable", "ok", 0, args, <<Len(obs_cache')  - 1>>)
                    /\ UNCHANGED <<qsim, qubit_map, allocated_qubits, device_shots>>

Observable == ObservableOf(ObsIds)

\* a concatenation that stops after the first constituent
ConcatFirst(es, k) ==
    IF k > Len(es) THEN QrackObservable(<<>>, <<>>) ELSE es[k]

RECURSIVE Concat(_, _)
\* the entries es[k..], their bases and their indices, one after the other
Concat(es, k) ==
    IF k > Len(es) THEN QrackObservable(<<>>, <<>>)
    ELSE LET rest == Concat(es, k + 1)
         IN  QrackObservable(es[k].obs \o rest.obs, es[k].wires \o rest.wires)

\* the lists of observable indices handed to TensorObservable
MaxFactors == 2
ObsLists == SeqsUpTo(ObsIndexes, MaxFactors)

\* TensorObservable(obs): no index is checked. last.args: whether every index
\* is one of the cache, and then the indices; last.ret: the index returned.
\* junk is what obs_cache[id] yields for an id that is no index of the cache.
TensorObservableWith(obs, junk) ==
    LET valid == \A k \in DOMAIN obs : InCache(obs[k])
        es == [k \in DOMAIN obs |->
                 IF InCache(obs[k]) THEN obs_cache[obs[k] + 1] ELSE junk]
    IN  /\ Alive
        /\ Len(obs_cache) < MaxObs
        /\ obs_cache' = Append(obs_cache, Concat(es, 1))
        /\ last' = Call("TensorObservable", "ok", 0,
                        IF valid THEN <<TRUE, obs>> ELSE <<FALSE>>, <<Len(obs_cache') - 1>>)
        /\ UNCHANGED <<qsim, qubit_map, allocated_qubits, device_shots>>

\* the calls whose every index is an index of the cache
TensorObservable ==
    \E obs \in ObsLists :
        /\ \A k \in DOMAIN obs : InCache(obs[k])
        /\ TensorObservableWith(obs, QrackObservable(<<>>, <<>>))

\* the calls with an index outside the cache: the read past the vector kills the
\* process, or yields whatever is there
TensorObservableOutside ==
    \E obs \in ObsLists :
        /\ \E k \in DOMAIN obs : ~InCache(obs[k])
        /\ \/ /\ Alive
              /\ last' = Call("TensorObservable", "crash", 0, <<FALSE>>, <<>>)
              /\ UNCHANGED <<qsim, qubit_map, allocated_qubits, obs_cache, device_shots>>
           \/ \E junk \in GarbageObs : TensorObservableWith(obs, junk)

\* HamiltonianObservable(coeffs, obs) returns -1 and does nothing else
HamiltonianObservable ==
    /\ Alive
    /\ last' = Call("HamiltonianObservable", "ok", 0, <<>>, <<-1>>)
    /\ UNCHANGED <<qsim, qubit_map, allocated_qubits, obs_cache, device_shots>>

MtrxY == <<<<0, 0>>, <<0, -1>>, <<0, 1>>, <<0, 0>>>>
MtrxI == <<<<1, 0>>, <<0, 0>>, <<0, 0>>, <<1, 0>>>>

PauliMtrx(basis) ==
    CASE basis = "PauliX" -> MtrxX
      [] basis = "PauliY" -> MtrxY
      [] basis = "PauliZ" -> MtrxZ
      [] OTHER -> MtrxI

RECURSIVE PauliApplied(_, _, _)
\* the Pauli operators o.obs[k..] on the qubits o.wires[k..], applied to s
PauliApplied(s, o, k) ==
    IF k > Len(o.obs) THEN s
    ELSE PauliApplied(Mtrx(s, PauliMtrx(o.obs[k]), o.wires[k]), o, k + 1)

\* qsim->ExpectationPauliAll(wires, obs): <psi|P|psi> as <<numerator, denominator>>
ExpectationPauliAll(s, o) ==
    LET t == PauliApplied(s, o, 1)
    IN  <<SumTo([i \in 0..(Dim(s) - 1) |->
                   s.amp[i][1] * t.amp[i][1] + s.amp[i][2] * t.amp[i][2]], Dim(s)),
          TotalWeight(s)>>

\* qsim->VariancePauliAll(wires, obs): 1 - <P>^2, over the squared denominator
VariancePauliAll(s, o) ==
    LET e == ExpectationPauliAll(s, o)
    IN  <<e[2] * e[2] - e[1] * e[1], e[2] * e[2]>>

\* Expval(id) and Var(id): obs_cache[id] is read whatever id is.
\* last.args: whether id is an index of the cache, and id when it is not;
\* last.ret: the value.
Statistic(op, id) ==
    LET args == IF InCache(id) THEN <<TRUE>> ELSE <<FALSE, id>>
        done(err, prims, ret) ==
            /\ last' = Call(op, err, prims, args, ret)
            /\ UNCHANGED <<qsim, qubit_map, allocated_qubits, obs_cache, device_shots>>
        value(o) ==
            IF \E k \in DOMAIN o.wires : ~InRange(qsim, o.wires[k])
            THEN done("engine_error", 1, <<>>)
            ELSE done("ok", 1, IF op = "Expval" THEN ExpectationPauliAll(qsim, o)
                               ELSE VariancePauliAll(qsim, o))
    IN  /\ Alive
        /\ IF InCache(id) THEN value(obs_cache[id + 1])
           ELSE \/ done("crash", 0, <<>>)
                \/ \E junk \in GarbageObs : value(junk)

Expval == \E id \in ObsIndexes : Statistic("Expval", id)

Var == \E id \in ObsIndexes : Statistic("Var", id)

\* -------------------------------------------------------- matrix operation
\* Qrack::inv2x2(mtrx, inv): the adjugate over the determinant; the
\* determinant of a unitary has modulus 1, so that 1 / det is its conjugate
inv2x2(m) ==
    LET det == CSub(CMul(m[1], m[4]), CMul(m[2], m[3]))
        rdet == <<det[1], -det[2]>>
    IN  <<CMul(m[4], rdet), CMul(CNeg(m[2]), rdet), CMul(CNeg(m[3]), rdet), CMul(m[1], rdet)>>

\* MatrixOperation(matrix, wires, inverse, controlled_wires, controlled_values).
\* last.args: whether the wires are mapped, and whether the control wires and
\* values are as many and there is one target. For the matrices and the control
\* arguments given.
MatrixOperationWith(matrices, targets, controls, calls) ==
    \E mtrx \in matrices, wires \in targets, inverse \in BOOLEAN,
       controlled_wires \in controls.wires, controlled_values \in controls.values :
        LET args == <<Live(wires) /\ Live(controlled_wires),
                      Len(controlled_wires) = Len(controlled_values) /\ Len(wires) = 1>>
            fail(err) ==
                /\ last' = Call("MatrixOperation", err, 0, args, <<>>)
                /\ UNCHANGED <<qsim, qubit_map, allocated_qubits, obs_cache, device_shots>>
        IN  /\ Alive
            /\ Range(wires) \cap Range(controlled_wires) = {}
            /\ IF Len(controlled_wires) # Len(controlled_values) THEN fail("runtime_error")
               ELSE IF Len(wires) # 1 THEN fail("runtime_error")
               ELSE IF ~Mapped(wires) \/ ~Mapped(controlled_wires)
               THEN fail("invalid_argument")
               ELSE LET dev_wires == getDeviceWires(wires)
                        dev_controlled_wires == getDeviceWires(controlled_wires)
                        m == IF inverse THEN inv2x2(mtrx) ELSE mtrx
                        prog == IF dev_controlled_wires = <<>>
                                THEN <<qUCMtrx(<<>>, m, dev_wires[1], 0)>>
                                ELSE <<qUCMtrx(dev_controlled_wires, m, dev_wires[1],
                                               controlPerm(controlled_values))>>
                    IN  \E r \in {Run(qsim, prog)} :
                          /\ qsim' = r.s
                          /\ last' = Call("MatrixOperation", r.err, r.prims, args,
                                          Issued(calls, "MatrixOperation", inverse, mtrx,
                                                 wires, controlled_wires,
                                                 controlled_values, prog))
                          /\ UNCHANGED <<qubit_map, allocated_qubits, obs_cache, device_shots>>

\* the same over the target lists of the model, the calls not recorded
MatrixOperationOf(matrices, controls) ==
    MatrixOperationWith(matrices, TargetLists, controls, FALSE)

\* ------------------------------------------------------------------ queries
\* what PartialProbs(p, wires) leaves in p when every wire is mapped
PartialProbsOf(wires) == ProbBitsAll(qsim, Reverse(getDeviceWires(wires)))

\* the sizes a caller's buffer has: the size the call asks for, or one more
Sizes(right) == {right, right + 1}

\* a PartialProbs that looks wires up with qubit_map[wire], which yields index 0
\* for a handle the map does not hold, instead of getDeviceWires
PartialProbsUnchecked ==
    \E wires \in TargetLists :
        LET dev_wires == [k \in DOMAIN wires |->
                            IF wires[k] \in DOMAIN qubit_map THEN qubit_map[wires[k]] ELSE 0]
        IN  /\ Alive
            /\ \A k \in DOMAIN dev_wires : InRange(qsim, dev_wires[k])
            /\ last' = Call("PartialProbs", "ok", 1, <<Live(wires), TRUE>>,
                            ProbBitsAll(qsim, Reverse(dev_wires)))
            /\ UNCHANGED <<qsim, qubit_map, allocated_qubits, obs_cache, device_shots>>

\* PartialProbs(p, wires). last.args: whether the wires are mapped and whether
\* p has pow2(wires.size()) elements; last.ret: p.
PartialProbs ==
    \E wires \in TargetLists :
    \E size \in Sizes(Pow2(Len(wires))) :
        LET done(err, prims, ret) ==
                /\ last' = Call("PartialProbs", err, prims,
                                <<Live(wires), size = Pow2(Len(wires))>>, ret)
                /\ UNCHANGED <<qsim, qubit_map, allocated_qubits, obs_cache, device_shots>>
        IN  /\ Alive
            /\ IF Pow2(Len(wires)) # size THEN done("runtime_error", 0, <<>>)
               ELSE IF ~Mapped(wires) THEN done("invalid_argument", 0, <<>>)
               ELSE IF \E k \in DOMAIN wires : ~InRange(qsim, qubit_map[wires[k]])
               THEN done("engine_error", 1, <<>>)
               ELSE done("ok", 1, PartialProbsOf(wires))

RECURSIVE reverseWiresFrom(_, _)
\* reverseWires: qsim->Swap(i, end - i) for i = k .. mid - 1
reverseWiresFrom(s, k) ==
    IF k >= s.n \div 2 THEN s
    ELSE reverseWiresFrom(Swap(s, k, (s.n - 1) - k), k + 1)

reverseWires(s) == reverseWiresFrom(s, 0)

\* qsim->GetProbs(p): p[i] is the weight of basis state i
GetProbs(s) == [i \in 0..(Dim(s) - 1) |-> CNorm(s.amp[i])]

\* Probs(p): the wires reversed, the probabilities read, the wires reversed back.
\* last.args: whether p has 2^n elements; last.ret: p.
Probs ==
    \E size \in Sizes(Dim(qsim)) :
        /\ Alive
        /\ IF size # Dim(qsim)
           THEN /\ last' = Call("Probs", "runtime_error", 0, <<FALSE>>, <<>>)
                /\ UNCHANGED qsim
           ELSE /\ last' = Call("Probs", "ok", 2 * (qsim.n \div 2) + 1, <<TRUE>>,
                                GetProbs(reverseWires(qsim)))
                /\ qsim' = reverseWires(reverseWires(qsim))
        /\ UNCHANGED <<qubit_map, allocated_qubits, obs_cache, device_shots>>

\* ----------------------------------------------------------------- sampling
\* the basis states qsim->MAll() can return
Support(s) == {i \in 0..(Dim(s) - 1) : s.amp[i] # CZero}

\* the state after MAll returned i
CollapsedAll(s, i) ==
    [s EXCEPT !.amp = [j \in 0..(Dim(s) - 1) |-> IF j = i THEN <<1, 0>> ELSE CZero]]

\* the key MultiShotMeasureMask gives basis state i: bit p of it is the bit of i
\* that the power qPowers[p] selects
MaskKey(qPowers, i) ==
    SumTo([p \in 0..(Len(qPowers) - 1) |->
             ((i \div qPowers[p + 1]) % 2) * Pow2(p)], Len(qPowers))

\* the outcome-to-count maps over the keys that total shots: each of the shots
\* lands on one key (seq lists them by key, their order not being kept), and
\* the map counts the shots per key that got any
CountMaps(keys, shots) ==
    {[k \in Range(seq) |-> Cardinality({i \in 1..shots : seq[i] = k})] :
        seq \in {q \in [1..shots -> keys] : \A i \in 1..(shots - 1) : q[i] <= q[i + 1]}}

\* qsim->MultiShotMeasureMask(qPowers, shots): the maps the simulator can return
MultiShotMeasureMask(s, qPowers, shots) ==
    CountMaps({MaskKey(qPowers, i) : i \in Support(s)}, shots)

\* the simulator refuses a power that is no power of a qubit it holds
PowersInRange(s, qPowers) == \A p \in DOMAIN qPowers : qPowers[p] < Dim(s)

\* a loop that writes the row of an outcome once, however many shots gave it
RepeatOnce(row, cnt) == IF cnt <= 0 THEN <<>> ELSE <<row>>

RECURSIVE Repeat(_, _)
\* the row cnt times: for (; shots > 0; --shots)
Repeat(row, cnt) == IF cnt <= 0 THEN <<>> ELSE <<row>> \o Repeat(row, cnt - 1)

RECURSIVE SampleRowsFrom(_, _, _)
\* _SampleBody over the keys of q_samples from key k on, in the order of the map
SampleRowsFrom(numQubits, q_samples, k) ==
    IF k > MaxKey THEN <<>>
    ELSE (IF k \in DOMAIN q_samples
          THEN Repeat([wire \in 1..numQubits |-> Bit(k, wire - 1)], q_samples[k])
          ELSE <<>>) \o SampleRowsFrom(numQubits, q_samples, k + 1)

\* _SampleBody(numQubits, q_samples, samples): the rows written to samples
SampleBody(numQubits, q_samples) == SampleRowsFrom(numQubits, q_samples, 0)

RECURSIVE CountsFrom(_, _, _, _)
\* _CountsBody over the keys of q_samples from key k on: counts(basisState) is
\* incremented once per shot, basisState being the low numQubits bits of the key
CountsFrom(numQubits, q_samples, counts, k) ==
    IF k > MaxKey THEN counts
    ELSE CountsFrom(numQubits, q_samples,
                    IF k \in DOMAIN q_samples
                    THEN [counts EXCEPT ![k % Pow2(numQubits)] = @ + q_samples[k]]
                    ELSE counts, k + 1)

\* _CountsBody(numQubits, q_samples, counts) on counts filled with 0
CountsBody(numQubits, q_samples) ==
    CountsFrom(numQubits, q_samples, [i \in 0..(Pow2(numQubits) - 1) |-> 0], 0)

\* the single-shot sample of Sample and Counts: bit numQubits - (i + 1) of it
\* is bit i of rev_sample
ReversedSample(rev_sample, numQubits) ==
    SumTo([i \in 0..(numQubits - 1) |->
             Bit(rev_sample, i) * Pow2(numQubits - (i + 1))], numQubits)

\* the single-shot sample of PartialSample and PartialCounts: bit
\* numQubits - (i + 1) of it is bit dev_wires[i] of rev_sample
ReversedPartialSample(rev_sample, dev_wires) ==
    SumTo([i \in 0..(Len(dev_wires) - 1) |->
             Bit(rev_sample, dev_wires[i + 1]) * Pow2(Len(dev_wires) - (i + 1))],
          Len(dev_wires))

\* The four sampling calls share one shape. kind is the call, numQubits the
\* number of measured wires, qPowers the powers of the multi-shot path, and
\* single(rev_sample) is computed by the caller: here the single-shot sample is
\* passed as the sequence singles, indexed by rev_sample + 1.
Sampling(kind, args, shots, numQubits, qPowers, singles) ==
    LET result(q_samples) ==
            IF kind \in {"Sample", "PartialSample"} THEN SampleBody(numQubits, q_samples)
            ELSE CountsBody(numQubits, q_samples)
    IN  IF shots = 1
        THEN \E rev_sample \in Support(qsim) :
               /\ qsim' = CollapsedAll(qsim, rev_sample)
               /\ last' = Call(kind, "ok", 1, args,
                               result((singles[rev_sample + 1] :> 1)))
               /\ UNCHANGED <<qubit_map, allocated_qubits, obs_cache, device_shots>>
        ELSE IF ~PowersInRange(qsim, qPowers)
        THEN /\ last' = Call(kind, "engine_error", 1, args, <<>>)
             /\ UNCHANGED <<qsim, qubit_map, allocated_qubits, obs_cache, device_shots>>
        ELSE \E q_samples \in MultiShotMeasureMask(qsim, qPowers, shots) :
               /\ last' = Call(kind, "ok", 1, args, result(q_samples))
               /\ UNCHANGED <<qsim, qubit_map, allocated_qubits, obs_cache, device_shots>>

\* Sample(samples, shots). last.args: whether samples has shots * n elements,
\* and shots; last.ret: the rows written.
Sample ==
    \E shots \in Shots :
    \E size \in Sizes(shots * qsim.n) :
        /\ Alive
        /\ IF size # shots * qsim.n
           THEN /\ last' = Call("Sample", "runtime_error", 0, <<FALSE>>, <<>>)
                /\ UNCHANGED <<qsim, qubit_map, allocated_qubits, obs_cache, device_shots>>
           ELSE Sampling("Sample", <<TRUE, shots>>, shots, qsim.n,
                         [i \in 1..qsim.n |-> Pow2(i - 1)],
                         [r \in 1..Dim(qsim) |-> ReversedSample(r - 1, qsim.n)])

\* Counts(eigvals, counts, shots). last.args: whether eigvals and counts have
\* 2^n elements, and shots; last.ret: counts.
Counts ==
    \E shots \in Shots, esize \in Sizes(Dim(qsim)), csize \in Sizes(Dim(qsim)) :
        /\ Alive
        /\ IF esize # Dim(qsim) \/ csize # Dim(qsim)
           THEN /\ last' = Call("Counts", "runtime_error", 0, <<FALSE>>, <<>>)
                /\ UNCHANGED <<qsim, qubit_map, allocated_qubits, obs_cache, device_shots>>
           ELSE Sampling("Counts", <<TRUE, shots>>, shots, qsim.n,
                         [i \in 1..qsim.n |-> Pow2(i - 1)],
                         [r \in 1..Dim(qsim) |-> ReversedSample(r - 1, qsim.n)])

\* last.args of PartialSample and PartialCounts: whether the wires are mapped,
\* whether the buffers have the size asked for and, of a call that got past
\* both checks, shots and the wires
PartialArgs(wires, sizeOk, shots) ==
    <<Live(wires), sizeOk>> \o (IF Live(wires) /\ sizeOk THEN <<shots, wires>> ELSE <<>>)

\* PartialSample(samples, wires, shots); last.ret: the rows written
PartialSample ==
    \E shots \in Shots, wires \in TargetLists :
    \E size \in Sizes(shots * Len(wires)) :
        LET args == PartialArgs(wires, size = shots * Len(wires), shots)
            fail(err) ==
                /\ last' = Call("PartialSample", err, 0, args, <<>>)
                /\ UNCHANGED <<qsim, qubit_map, allocated_qubits, obs_cache, device_shots>>
        IN  /\ Alive
            /\ IF size # shots * Len(wires) THEN fail("runtime_error")
               ELSE IF ~Mapped(wires) THEN fail("invalid_argument")
               ELSE LET dev_wires == getDeviceWires(wires)
                    IN  Sampling("PartialSample", args, shots, Len(dev_wires),
                                 [i \in 1..Len(dev_wires) |-> Pow2(dev_wires[i])],
                                 [r \in 1..Dim(qsim) |->
                                    ReversedPartialSample(r - 1, dev_wires)])

\* PartialCounts(eigvals, counts, wires, shots); last.ret: counts
PartialCounts ==
    \E shots \in Shots, wires \in TargetLists :
    \E esize \in Sizes(Pow2(Len(wires))), csize \in Sizes(Pow2(Len(wires))) :
        LET numElements == Pow2(Len(wires))
            args == PartialArgs(wires, esize = numElements /\ csize = numElements, shots)
            fail(err) ==
                /\ last' = Call("PartialCounts", err, 0, args, <<>>)
                /\ UNCHANGED <<qsim, qubit_map, allocated_qubits, obs_cache, device_shots>>
        IN  /\ Alive
            /\ IF esize # numElements \/ csize # numElements THEN fail("runtime_error")
               ELSE IF ~Mapped(wires) THEN fail("invalid_argument")
               ELSE LET dev_wires == getDeviceWires(wires)
                        n == Len(dev_wires)
                    IN  Sampling("PartialCounts", args, shots, n,
                                 [i \in 1..n |-> Pow2(dev_wires[n - (i - 1)])],
                                 [r \in 1..Dim(qsim) |->
                                    ReversedPartialSample(r - 1, dev_wires)])

\* ----------------------------------------------------------- specifications
\* a device constructed with an integer 'wires'
InitCount ==
    /\ \E cnt \in IntConfigs :
            /\ qubit_map = MapOfInt(cnt)
            /\ qsim = QSIM_CONFIG(cnt)
    /\ allocated_qubits = 0
    /\ obs_cache = <<>>
    /\ device_shots = 1
    /\ last = NoCall

\* The device's life: allocation and release, on basis states.
Next ==
    \/ AllocateQubit
    \/ AllocateQubits
    \/ ReleaseQubit
    \/ ReleaseAllQubits
    \/ NamedOperationOf({"PauliX"}, Uncontrolled, FALSE)

Spec == Init /\ [][Next]_vars

\* Measurement of product states.
NextMeasure ==
    \/ Measure
    \/ NamedOperationOf({"PauliX", "Hadamard"}, Uncontrolled, FALSE)

SpecMeasure == Init /\ [][NextMeasure]_vars

\* Gate dispatch, traced, over the names that need no sqrt(2).
NextGate == NamedOperationOf(GateNames \ {"Hadamard"}, Controlled, TRUE)

SpecGate == InitCount /\ [][NextGate]_vars

\* The observable cache: registration and evaluation, on basis states.
NextObs ==
    \/ Observable
    \/ TensorObservable
    \/ TensorObservableOutside
    \/ HamiltonianObservable
    \/ Expval
    \/ Var
    \/ ReleaseQubit
    \/ ReleaseAllQubits

\* a device of at most MaxObsWires wires, constructed with an integer 'wires'
InitObs ==
    /\ \E cnt \in 0..MaxObsWires :
            /\ qubit_map = MapOfInt(cnt)
            /\ qsim = QSIM_CONFIG(cnt)
    /\ allocated_qubits = 0
    /\ obs_cache = <<>>
    /\ device_shots = 1
    /\ last = NoCall

SpecObs == InitObs /\ [][NextObs]_vars

\* The observable cache under the calls that read no index outside it.
NextCache ==
    \/ Observable
    \/ TensorObservable
    \/ HamiltonianObservable
    \/ ReleaseQubit
    \/ ReleaseAllQubits

SpecCache == InitObs /\ [][NextCache]_vars

\* Sampling and histograms of basis states.
NextSample ==
    \/ NamedOperationOf({"PauliX"}, Uncontrolled, FALSE)
    \/ Sample
    \/ PartialSample
    \/ Counts
    \/ PartialCounts
    \/ Probs
    \/ PartialProbs

SpecSample == Init /\ [][NextSample]_vars

\* Sampling and histograms of superpositions.
NextShots ==
    \/ NamedOperationOf({"PauliX", "Hadamard"}, Uncontrolled, FALSE)
    \/ Sample
    \/ PartialSample
    \/ Counts
    \/ PartialCounts

SpecShots == InitObs /\ [][NextShots]_vars

\* The calls that look wires up in qubit_map, and the release of wires.
NextRef ==
    \/ NamedOperationOf({"PauliX"}, Controlled, FALSE)
    \/ MatrixOperationOf({MtrxX}, Controlled)
    \/ ObservableOf({"PauliZ"})
    \/ PartialProbs
    \/ PartialSample
    \/ PartialCounts
    \/ ReleaseQubit

\* one wire: handle 0 is mapped, every other handle is not
InitRef ==
    /\ qubit_map = MapOfInt(1)
    /\ qsim = QSIM_CONFIG(1)
    /\ allocated_qubits = 0
    /\ obs_cache = <<>>
    /\ device_shots = 1
    /\ last = NoCall

SpecRef == InitRef /\ [][NextRef]_vars

\* partial sampling of registers of up to MaxWires unentangled qubits
NextFrame ==
    \/ NamedOperationOf({"PauliX", "Hadamard"}, Uncontrolled, FALSE)
    \/ PartialSample
    \/ PartialCounts

SpecFrame == InitCount /\ [][NextFrame]_vars

\* A register just wide enough for a controlled gate of the swap family: its two
\* targets and one more wire.
SwapTargets == 2
WideHandles == 0..SwapTargets
WideTargets ==
    {w \in SeqsUpTo(WideHandles, SwapTargets) : Len(w) >= 1 /\ Injective(w)}
WidePairs == {w \in WideTargets : Len(w) = SwapTargets}
\* no control wire or one, no control value or one
WideControl ==
    [wires |-> {w \in SeqsUpTo(WideHandles, SwapTargets) : Len(w) < SwapTargets},
     values |-> {v \in SeqsUpTo(BOOLEAN, SwapTargets) : Len(v) < SwapTargets}]

InitWide ==
    /\ qubit_map = MapOfInt(SwapTargets + 1)
    /\ qsim = QSIM_CONFIG(SwapTargets + 1)
    /\ allocated_qubits = 0
    /\ obs_cache = <<>>
    /\ device_shots = 1
    /\ last = NoCall

\* ISWAP, with and without a control, on basis states that PauliX prepares
NextISwap ==
    \/ NamedOperationWith({"PauliX"}, WideTargets, Uncontrolled, FALSE, FALSE)
    \/ NamedOperationWith({"ISWAP"}, WidePairs, WideControl, FALSE, TRUE)

SpecISwap == InitWide /\ [][NextISwap]_vars

\* exactly one control wire and one control value
WideOneControl ==
    [wires |-> {w \in WideControl.wires : Len(w) = 1},
     values |-> {v \in WideControl.values : Len(v) = 1}]

\* two-target gates under one control wire, of either control value
NextControl ==
    NamedOperationWith({"PauliX", "SWAP", "ISWAP", "PSWAP"}, WidePairs, WideOneControl,
                       FALSE, TRUE)

SpecControl == InitWide /\ [][NextControl]_vars

\* controlled X gates and controlled matrices, by name or by matrix
NextZero ==
    \/ NamedOperationWith({"PauliX", "CNOT"}, WideTargets, WideOneControl, FALSE, TRUE)
    \/ MatrixOperationWith({MtrxX}, WideTargets, WideOneControl, TRUE)

SpecZero == InitWide /\ [][NextZero]_vars

\* up to three wires of the wide register: two controls and a target, or a
\* control and two targets
WideLists ==
    {w \in SeqsUpTo(WideHandles, SwapTargets + 1) : Len(w) >= 1 /\ Injective(w)}

\* the controlled names, with and without a control wire of the caller's own
NextPerm == NamedOperationWith({"CNOT", "Toffoli", "CSWAP"}, WideLists, WideControl, FALSE, TRUE)

SpecPerm == InitWide /\ [][NextPerm]_vars

\* Rot on one or two wires, CRot on a control and a target
NextRot == NamedOperationWith({"Rot", "CRot"}, WideTargets, Uncontrolled, FALSE, TRUE)

SpecRot == InitWide /\ [][NextRot]_vars

\* gates and their inverses, with and without a control
NextInverse ==
    \/ NamedOperationWith({"PauliX", "S", "T", "Rot"}, WideTargets \ WidePairs,
                          [wires |-> {<<>>}, values |-> {<<>>}], FALSE, TRUE)
    \/ NamedOperationWith({"ISWAP"}, WidePairs,
                          [wires |-> {<<>>}, values |-> {<<>>}], FALSE, TRUE)
    \/ NamedOperationWith({"S", "T"}, WideTargets \ WidePairs, WideOneControl, FALSE, TRUE)

SpecInverse == InitWide /\ [][NextInverse]_vars

\* the device built from kwargs that carry a 'noise' value besides 'wires': the
\* constructor knows no such key and goes on to the next
MaxNoise == 1

InitNoise ==
    /\ \E cnt \in 0..MaxObsWires :
          /\ qubit_map = MapOfInt(cnt)
          /\ qsim = QSIM_CONFIG(cnt)
    /\ allocated_qubits = 0
    /\ obs_cache = <<>>
    /\ device_shots = 1
    /\ \E noise \in 0..MaxNoise : last = [NoCall EXCEPT !.noise = noise]

NextNoise ==
    \/ SetDeviceShots
    \/ Sample
    \/ Counts
    \/ NamedOperationOf({"PauliX", "Hadamard"}, Uncontrolled, FALSE)

SpecNoise == InitNoise /\ [][NextNoise]_vars

\* ------------------------------------------------------------------- claims
\* C1: after a call that returns (a ReleaseQubit of a handle of the map
\* included), qubit_map maps the remaining handles one-to-one onto exactly the
\* register indices 0..GetNumQubits()-1: every stored index is distinct and
\* below the simulator's qubit count.
C1_MapIsBijection ==
    (last.err = "ok" /\ (last.op = "ReleaseQubit" => last.args[1])) =>
        /\ \A h \in DOMAIN qubit_map : qubit_map[h] < qsim.n
        /\ \A h1, h2 \in DOMAIN qubit_map : qubit_map[h1] = qubit_map[h2] => h1 = h2
        /\ {qubit_map[h] : h \in DOMAIN qubit_map} = 0..(qsim.n - 1)

\* C2: when Measure(h) of a live handle h returns r, PartialProbs over [h] reports
\* probability 1 for outcome r and 0 for the other outcome.
C2_MeasureCollapsesMappedQubit ==
    (last.op = "Measure" /\ last.err = "ok" /\ last.args[1] \in DOMAIN qubit_map) =>
        LET p == PartialProbsOf(<<last.args[1]>>)
            r == last.ret[1]
        IN  p[r] = TotalWeight(qsim) /\ p[1 - r] = 0

\* C7: ReleaseQubit of a handle that is not in qubit_map fails at once: it issues
\* no call on the simulator and leaves the simulator and qubit_map as they were.
C7_ReleaseUnknownHandleFails ==
    [][(last'.op = "ReleaseQubit" /\ last' # last /\ ~last'.args[1]) =>
          (last'.err # "ok" /\ last'.prims = 0 /\ qsim' = qsim /\ qubit_map' = qubit_map)]_vars

\* the number of targets a name's gate takes, once the leading wires of a
\* controlled name have become controls: 2 for the swap family, 1 for the
\* single-qubit families, 0 for a name that fixes none
FixedArity(name) ==
    CASE name \in {"SWAP", "ISWAP", "PSWAP", "CSWAP"} -> 2
      [] name \in {"PauliX", "PauliZ", "Hadamard", "CNOT"} -> 1
      [] OTHER -> 0

\* the targets left of nT wires handed in under the name
TargetsLeft(name, nT) ==
    IF KeptTargets(name) > 0 /\ nT >= KeptTargets(name) THEN KeptTargets(name) ELSE nT

\* C10: a NamedOperation call that passes the handle checks and hands a
\* fixed-arity gate the wrong number of targets is rejected: it returns an
\* error, and no call on the simulator has been issued, with or without controls.
C10_WrongTargetCountRejected ==
    (/\ last.op = "NamedOperation"
     /\ last.args[1]
     /\ last.args[2]
     /\ FixedArity(last.args[3]) # 0
     /\ TargetsLeft(last.args[3], last.args[4]) # FixedArity(last.args[3]))
        => (last.err \notin {"ok", "crash"} /\ last.prims = 0)

\* the wires a sampling call measured, as simulator qubits in the order of the
\* columns the caller reads: every device wire for Sample, the mapped wires
\* handed in for PartialSample
MeasuredQubits ==
    IF last.op = "Sample" THEN [j \in 1..qsim.n |-> j - 1]
    ELSE [j \in 1..Len(last.args[4]) |-> qubit_map[last.args[4][j]]]

\* C3: after Sample or PartialSample on a basis state, single-shot or
\* multi-shot, every row written holds in column j the bit of the j-th
\* measured wire, so the single-shot row equals every multi-shot row.
C3_RowsFollowMeasuredWires ==
    (/\ last.op \in {"Sample", "PartialSample"}
     /\ last.err = "ok"
     /\ Cardinality(Support(qsim)) = 1) =>
        \A r \in DOMAIN last.ret : \A j \in DOMAIN MeasuredQubits :
            \A i \in Support(qsim) : last.ret[r][j] = Bit(i, MeasuredQubits[j])

\* C4: the index under which Counts increments an outcome is an index to which
\* Probs gives that outcome's probability, and likewise PartialCounts and
\* PartialProbs over the same wires: no index is counted that has probability 0.
C4_CountsIndexedAsProbs ==
    /\ (last.op = "Counts" /\ last.err = "ok") =>
           \A i \in DOMAIN last.ret :
               last.ret[i] > 0 => GetProbs(reverseWires(qsim))[i] > 0
    /\ (last.op = "PartialCounts" /\ last.err = "ok") =>
           \A i \in DOMAIN last.ret :
               last.ret[i] > 0 => PartialProbsOf(last.args[4])[i] > 0


\* the shots and the number of measured wires of the sampling call in last
ShotsAsked == IF last.op \in {"Sample", "Counts"} THEN last.args[2] ELSE last.args[3]
WiresMeasured == IF last.op \in {"Sample", "Counts"} THEN qsim.n ELSE Len(last.args[4])

\* C5: a successful Sample or PartialSample wrote exactly shots rows of k values
\* in {0,1}, and a successful Counts or PartialCounts left 2^k counts, none
\* negative, that sum to shots, k being the number of measured wires; on the
\* single-shot path as on the multi-shot path.
C5_ShotsConserved ==
    /\ (last.op \in {"Sample", "PartialSample"} /\ last.err = "ok") =>
           /\ Len(last.ret) = ShotsAsked
           /\ \A r \in DOMAIN last.ret :
                  /\ DOMAIN last.ret[r] = 1..WiresMeasured
                  /\ \A j \in DOMAIN last.ret[r] : last.ret[r][j] \in {0, 1}
    /\ (last.op \in {"Counts", "PartialCounts"} /\ last.err = "ok") =>
           /\ DOMAIN last.ret = 0..(Pow2(WiresMeasured) - 1)
           /\ \A i \in DOMAIN last.ret : last.ret[i] >= 0
           /\ SumTo(last.ret, Pow2(WiresMeasured)) = ShotsAsked


\* C5 is met by a multi-shot Sample of a superposition whose shots gave
\* different outcomes.
C5_TwoOutcomesSampled ==
    /\ last.op = "Sample"
    /\ last.err = "ok"
    /\ last.args[1]
    /\ last.args[2] > 1
    /\ \E r1, r2 \in DOMAIN last.ret : last.ret[r1] # last.ret[r2]

\* the calls that look wires up through getDeviceWires
RefOps ==
    {"NamedOperation", "MatrixOperation", "Observable", "PartialProbs",
     "PartialSample", "PartialCounts"}

\* C6 as the specification words it: a call of RefOps that names a handle
\* qubit_map does not hold fails with an invalid-argument error, issues no
\* simulator primitive and leaves qsim, qubit_map and obs_cache as they were.
C6_UnmappedIsInvalidArgument ==
    [][(last'.op \in RefOps /\ ~last'.args[1]) =>
          /\ last'.err = "invalid_argument"
          /\ last'.prims = 0
          /\ qsim' = qsim
          /\ qubit_map' = qubit_map
          /\ obs_cache' = obs_cache]_vars

\* C6: a call of RefOps that names a handle qubit_map does not hold fails,
\* issues no simulator primitive and leaves qsim, qubit_map and obs_cache as
\* they were; the error is the invalid-argument error of the lookup when the
\* arguments have the shape the call asks for (as many control values as
\* control wires, one target for MatrixOperation and Observable, buffers of the
\* size of the result), and the runtime failure of the shape check otherwise.
C6_UnmappedFailsBeforeAnyPrimitive ==
    [][(last'.op \in RefOps /\ ~last'.args[1]) =>
          /\ last'.err = IF last'.args[2] THEN "invalid_argument" ELSE "runtime_error"
          /\ last'.prims = 0
          /\ qsim' = qsim
          /\ qubit_map' = qubit_map
          /\ obs_cache' = obs_cache]_vars

\* C6 is met by a MatrixOperation that names handle 0 after ReleaseQubit
\* released it.
C6_ReleasedHandleNamed ==
    /\ last.op = "MatrixOperation"
    /\ ~last.args[1]
    /\ last.args[2]
    /\ last.err = "invalid_argument"
    /\ 0 \notin DOMAIN qubit_map

\* C8: Expval, Var and TensorObservable with an observable index that is no
\* index of obs_cache report an error, issue no simulator primitive and leave
\* obs_cache and qsim as they were.
C8_OutsideIndexIsAnError ==
    [][(last'.op \in {"Expval", "Var", "TensorObservable"} /\ ~last'.args[1]) =>
          /\ last'.err \notin {"ok", "crash"}
          /\ last'.prims = 0
          /\ obs_cache' = obs_cache
          /\ qsim' = qsim]_vars

RECURSIVE OffsetOf(_, _)
\* the number of (Pauli, index) pairs of the entries parts[1..k-1]
OffsetOf(parts, k) ==
    IF k <= 1 THEN 0 ELSE OffsetOf(parts, k - 1) + Len(parts[k - 1].obs)

\* entry e holds the pairs of parts[1], then those of parts[2], and so on
IsConcatenation(e, parts) ==
    /\ Len(e.obs) = OffsetOf(parts, Len(parts) + 1)
    /\ Len(e.wires) = Len(e.obs)
    /\ \A k \in DOMAIN parts : \A j \in DOMAIN parts[k].obs :
           /\ e.obs[OffsetOf(parts, k) + j] = parts[k].obs[j]
           /\ e.wires[OffsetOf(parts, k) + j] = parts[k].wires[j]

C16_AllocateQubitIssuesFreshHandles ==
    [][/\ (last'.op = "AllocateQubit" /\ allocated_qubits' # allocated_qubits) =>
            /\ last'.ret[1] \notin last.held
            /\ last'.ret[1] \in DOMAIN qubit_map
       /\ (last'.op = "AllocateQubit" /\ last' # last
              /\ allocated_qubits >= Cardinality(DOMAIN qubit_map)) =>
            /\ last'.err = "runtime_error"
            /\ <<qsim, qubit_map, allocated_qubits, obs_cache>>'
                 = <<qsim, qubit_map, allocated_qubits, obs_cache>>]_vars


\* C17: ReleaseAllQubits leaves a zero-qubit simulator and an empty qubit_map, and
\* it neither resets the cursor nor refills the map: in the rest of the session
\* every AllocateQubit throws and every gate naming a handle fails.
C17_NothingWorksAfterReleaseAll ==
    /\ last.op = "ReleaseAllQubits" => (qsim.n = 0 /\ DOMAIN qubit_map = {})
    /\ (last.cleared /\ last.op = "AllocateQubit") => last.err = "runtime_error"
    /\ (last.cleared /\ last.op = "NamedOperation") => last.err # "ok"


\* C20: PartialSample and PartialCounts over a subset of the wires never measure
\* or collapse a qubit outside the subset, whatever shots is, shots = 1
\* included: the outcome weights of every other qubit stay as they were.
C20_PartialSamplingSparesOtherQubits ==
    [][(last'.op \in {"PartialSample", "PartialCounts"} /\ last'.err = "ok") =>
          \A q \in 0..(qsim.n - 1), b \in 0..1 :
              q \notin {qubit_map[h] : h \in Range(last'.args[4])} =>
                  Weight(qsim', q, b) * TotalWeight(qsim)
                      = Weight(qsim, q, b) * TotalWeight(qsim')]_vars


\* the register of n qubits in the basis state i, with amplitude a
Basis(n, i, a) == [n |-> n, amp |-> [j \in 0..(Pow2(n) - 1) |-> IF j = i THEN a ELSE CZero]]

\* the recorded gate call that last reached the simulator and returned
Recorded(names) ==
    /\ last.op = "NamedOperation"
    /\ last.err = "ok"
    /\ last.ret # <<>>
    /\ last.ret[1].name \in names

\* basis index i meets the control condition of the recorded call: every control
\* wire reads its control value
Satisfies(i, rec) ==
    \A k \in DOMAIN rec.controlled_wires :
        Bit(i, qubit_map[rec.controlled_wires[k]]) = (IF rec.controlled_values[k] THEN 1 ELSE 0)

\* C18: the inverse flag of ISWAP selects the same direction on both dispatch
\* paths: with inverse = false the gate exchanges |01> and |10> of its targets
\* with the factor +i, without controls as with a satisfied control condition,
\* and with inverse = true it applies the adjoint (the factor -i) on both.
C18_ISwapDirectionAgrees ==
    Recorded({"ISWAP"}) =>
        LET rec == last.ret[1]
            q1 == qubit_map[rec.wires[1]]
            q2 == qubit_map[rec.wires[2]]
        IN  \A i \in 0..(Dim(qsim) - 1) :
                (Satisfies(i, rec) /\ Bit(i, q1) # Bit(i, q2)) =>
                    Run(Basis(qsim.n, i, IPow(0)), rec.prog).s
                        = Basis(qsim.n, Flip(Flip(i, q1), q2),
                                IF rec.inverse THEN IPow(3) ELSE IPow(1))


\* the control wires of the recorded call read in j what they read in i
SameControls(i, j, rec) ==
    \A k \in DOMAIN rec.controlled_wires :
        Bit(i, qubit_map[rec.controlled_wires[k]]) = Bit(j, qubit_map[rec.controlled_wires[k]])

\* C19: a named gate called with a non-empty control list, SWAP, ISWAP and PSWAP
\* included, acts on its targets exactly in the branch where every control qubit
\* equals its control value: it leaves every other basis state as it is, it
\* changes some basis state of that branch, and it never changes what the
\* control qubits read.
C19_ActsWhereControlsMatch ==
    (Recorded({"PauliX", "SWAP", "ISWAP", "PSWAP"}) /\ last.ret[1].controlled_wires # <<>>) =>
        LET rec == last.ret[1]
            out(i) == Run(Basis(qsim.n, i, IPow(0)), rec.prog).s
        IN  /\ \A i \in 0..(Dim(qsim) - 1) :
                   ~Satisfies(i, rec) => out(i) = Basis(qsim.n, i, IPow(0))
            /\ \E i \in 0..(Dim(qsim) - 1) :
                   Satisfies(i, rec) /\ out(i) # Basis(qsim.n, i, IPow(0))
            /\ \A i, j \in 0..(Dim(qsim) - 1) :
                   out(i).amp[j] # CZero => SameControls(i, j, rec)


\* the call that made last reached the simulator with a non-empty control list
\* whose values are all v
ControlledBy(call, v) ==
    /\ call.op \in {"NamedOperation", "MatrixOperation"}
    /\ call.ret # <<>>
    /\ call.ret[1].controlled_wires # <<>>
    /\ \A k \in DOMAIN call.ret[1].controlled_values : call.ret[1].controlled_values[k] = v

\* C14, as stated: a controlled-gate call (NamedOperation or MatrixOperation with
\* a non-empty control list) whose control values are all false, on a register
\* in |0...0>, never changes the state.
C14_AllFalseControlsLeaveZeroState ==
    [][(qsim = QSIM_CONFIG(qsim.n) /\ ControlledBy(last', FALSE)) => qsim' = qsim]_vars

\* C14, amended: a controlled-gate call (NamedOperation or MatrixOperation with a
\* non-empty control list) whose control values are all true, on a register in
\* |0...0>, never changes the state: no control qubit reads 1.
C14_AllTrueControlsLeaveZeroState ==
    [][(qsim = QSIM_CONFIG(qsim.n) /\ ControlledBy(last', TRUE)) => qsim' = qsim]_vars

\* a call under all-true controls has been issued on the simulator in |0...0>
C14_TrueControlledCallOnZeroState ==
    /\ ControlledBy(last, TRUE)
    /\ last.err = "ok"
    /\ last.prims >= 1
    /\ qsim = QSIM_CONFIG(qsim.n)


\* the device indices of a list of handles
Indices(wires) == [k \in DOMAIN wires |-> qubit_map[wires[k]]]

\* C12: for a controlled name, NamedOperation makes controls of all target wires
\* but the last (for CSWAP: the last two), with control value true, after the
\* caller's own controls; and bit k of the control permutation handed to the
\* simulator is the value asked of the k-th wire of that combined list.
C12_LeadingTargetsBecomeTrueControls ==
    (Recorded({"CNOT", "Toffoli", "CSWAP"}) /\ last.ret[1].prog # <<>>) =>
        LET rec == last.ret[1]
            kept == IF rec.name = "CSWAP" THEN SwapTargets ELSE 1
            end == Len(rec.wires) - kept
            combined == Indices(rec.controlled_wires) \o SubSeq(Indices(rec.wires), 1, end)
            values == rec.controlled_values \o [k \in 1..end |-> TRUE]
            targets == SubSeq(Indices(rec.wires), end + 1, Len(rec.wires))
            falses == {combined[k] : k \in {j \in DOMAIN combined : ~values[j]}}
        IN  IF rec.name = "CSWAP"
            THEN /\ \E k \in DOMAIN rec.prog :
                       /\ rec.prog[k].prim = "CSwap"
                       /\ rec.prog[k].cs = combined
                       /\ rec.prog[k].q = targets
                       /\ \A j \in DOMAIN rec.prog : j # k => rec.prog[j].prim = "X"
                       /\ {rec.prog[j].q[1] : j \in 1..(k - 1)} = falses
                       /\ {rec.prog[j].q[1] : j \in (k + 1)..Len(rec.prog)} = falses
            ELSE /\ Len(rec.prog) = 1
                 /\ rec.prog[1].prim = "UCMtrx"
                 /\ rec.prog[1].m = MtrxX
                 /\ rec.prog[1].cs = combined
                 /\ rec.prog[1].q = targets
                 /\ \A k \in DOMAIN combined :
                        Bit(rec.prog[1].perm, k - 1) = (IF values[k] THEN 1 ELSE 0)

\* a CNOT has reached the simulator with a false-valued control of the caller's
\* ahead of the control its first target wire became
C12_MixedControlsIssued ==
    /\ Recorded({"CNOT"})
    /\ Len(last.ret[1].wires) = 2
    /\ last.ret[1].controlled_values = <<FALSE>>
    /\ last.prims = 1


\* C11: for Rot and CRot, on both dispatch paths, the matrix applied is the one
\* built from (phi, theta, omega) = (params[0], params[1], params[2]) when
\* inverse is false and from (-params[2], -params[1], -params[0]) when inverse
\* is true, and that one matrix is applied to every target.
C11_RotMatrixFromEffectiveAngles ==
    Recorded({"Rot", "CRot"}) =>
        LET rec == last.ret[1]
            p == rec.params
            eff == IF rec.inverse THEN <<-p[3], -p[2], -p[1]>> ELSE p
            end == IF rec.name = "CRot" THEN Len(rec.wires) - 1 ELSE 0
            targets == SubSeq(Indices(rec.wires), end + 1, Len(rec.wires))
        IN  /\ Len(rec.prog) = Len(targets)
            /\ \A k \in DOMAIN rec.prog :
                   /\ rec.prog[k].m = RotMtrx(eff[1], eff[2], eff[3])
                   /\ rec.prog[k].q = <<targets[k]>>
                   /\ rec.prog[k].prim = (IF end = 0 THEN "Mtrx" ELSE "UCMtrx")

\* an inverse Rot has been applied to two targets, or an inverse CRot under its
\* control, with three different angles
C11_InverseRotApplied ==
    /\ Recorded({"Rot", "CRot"})
    /\ last.ret[1].inverse
    /\ last.ret[1].params = <<1, 2, 3>>
    /\ Len(last.ret[1].wires) = 2
    /\ last.prims >= 1


\* how the calls of the model end otherwise
OtherOutcomes ==
    {"ok", "crash", "runtime_error", "invalid_argument", "domain_error", "length_error",
     "engine_error"}

\* C15: on a device configured with a noise magnitude above zero, asking for more
\* than one shot, by SetDeviceShots or in Sample or Counts, is rejected with an
\* error of its own, and asking for one shot succeeds.
C15_NoiseRejectsManyShots ==
    last.noise > 0 =>
        /\ (last.op = "SetDeviceShots" /\ last.args[1] > 1) => last.err \notin OtherOutcomes
        /\ (last.op = "SetDeviceShots" /\ last.args[1] = 1) => last.err = "ok"
        /\ (last.op \in {"Sample", "Counts"} /\ last.args[1] /\ last.args[2] > 1) =>
               last.err \notin OtherOutcomes
        /\ (last.op \in {"Sample", "Counts"} /\ last.args[1] /\ last.args[2] = 1) =>
               last.err = "ok"

\* the gate call l records: one of names that reached the simulator and returned
RecordedCall(l, names) ==
    /\ l.op = "NamedOperation"
    /\ l.err = "ok"
    /\ l.ret # <<>>
    /\ l.ret[1].name \in names

\* call b is call a again with the inverse flag set (a flag the names outside
\* InversesOf never read)
Undoes(a, b) ==
    /\ ~a.inverse
    /\ b.inverse \/ InversesOf(a.name) = {FALSE}
    /\ b.name = a.name /\ b.params = a.params /\ b.wires = a.wires
    /\ b.controlled_wires = a.controlled_wires
    /\ b.controlled_values = a.controlled_values

\* the factors f and g are numbers of modulus one whose product is one
UnitInverses(f, g) ==
    /\ ~f.nan /\ ~g.nan
    /\ CNorm(f.z) * CNorm(f.z) = Pow2(f.e)
    /\ CNorm(g.z) * CNorm(g.z) = Pow2(g.e)
    /\ CMul(f.z, g.z)[2] = 0 /\ CMul(f.z, g.z)[1] > 0
    /\ CMul(f.z, g.z)[1] ^ 4 = Pow2(f.e + g.e)

VocabularyChecked == {"PauliX", "S", "T", "ISWAP", "Rot"}

\* C13: a gate call with inverse = false followed by the same call with
\* inverse = true (same name, parameters, targets, controls and control values)
\* leaves the state as it was before the first of the two; and the phase factors
\* the controlled S and the controlled T apply for the two values of the flag
\* have modulus one and are inverse to each other.
C13_InverseUndoesGate ==
    [][/\ (/\ RecordedCall(last, VocabularyChecked)
           /\ RecordedCall(last', VocabularyChecked)
           /\ Undoes(last.ret[1], last'.ret[1])) => qsim' = last.ret[1].before
       /\ (/\ RecordedCall(last', {"S", "T"})
           /\ last'.ret[1].controlled_wires # <<>>) =>
               UnitInverses(PhaseOf(last'.ret[1].name, FALSE),
                            PhaseOf(last'.ret[1].name, TRUE))]_vars

\* the first half of C13 alone
InverseRestoresState ==
    [][(/\ RecordedCall(last, VocabularyChecked)
        /\ RecordedCall(last', VocabularyChecked)
        /\ Undoes(last.ret[1], last'.ret[1])) => qsim' = last.ret[1].before]_vars


====
